---- MODULE Spec2Model ----
(***************************************************************************)
(* A model of the brunch TypeScript compiler adapter.                      *)
(*                                                                         *)
(* Two shapes of the adapter exist in the repository: src/index.js, whose  *)
(* compile returns a promise, and src/unnamed/part_000, whose compile      *)
(* returns the result or throws.  The variable `variant` says which one a  *)
(* behaviour is about.                                                     *)
(***************************************************************************)
EXTENDS Integers, Sequences, FiniteSets, TLC

VARIABLES
    variant,    \* "promise" (src/index.js) or "direct" (src/unnamed/part_000)
    tsFile,     \* what <configRoot>/tsconfig.json holds on disk
    tsModule,   \* the compilerOptions object of the module require() has cached
    adapters,   \* the TypeScriptCompiler instances
    lastCall,   \* the compile call whose outcome has not been consumed yet
    enumCall    \* the last resolveEnum application (specification SpecEnum)

vars == <<variant, tsFile, tsModule, adapters, lastCall, enumCall>>

-----------------------------------------------------------------------------
(* Bounds of the model.                                                    *)

MaxLen == 3      \* longest enumerated choice string handed to resolveEnum
MaxNum == 3      \* largest enumerated numeric choice
MaxDiags == 2    \* longest diagnostics list the transpiler returns

-----------------------------------------------------------------------------
(* JavaScript values.  A string is a sequence of one-character strings so  *)
(* that case conversion and numeric parsing are computed, not assumed.     *)

Absent == [t |-> "undefined"]
Null == [t |-> "null"]
Bool(b) == [t |-> "boolean", b |-> b]
Num(n) == [t |-> "number", n |-> n]
Str(s) == [t |-> "string", s |-> s]
List(l) == [t |-> "array", l |-> l]
Regex(src) == [t |-> "regexp", src |-> src]
Obj == [t |-> "object"]
Matcher(paths) == [t |-> "matcher", paths |-> paths]

\* JavaScript truthiness (the conditions `!choice`, `a || b`, `if (x)`).
Truthy(v) ==
    CASE v.t = "undefined" -> FALSE
      [] v.t = "null" -> FALSE
      [] v.t = "boolean" -> v.b
      [] v.t = "number" -> v.n # 0
      [] v.t = "string" -> v.s # <<>>
      [] OTHER -> TRUE

Lower == <<"a", "b", "c", "d", "e", "f", "g", "h", "i", "j", "k", "l", "m",
           "n", "o", "p", "q", "r", "s", "t", "u", "v", "w", "x", "y", "z">>
Upper == <<"A", "B", "C", "D", "E", "F", "G", "H", "I", "J", "K", "L", "M",
           "N", "O", "P", "Q", "R", "S", "T", "U", "V", "W", "X", "Y", "Z">>
Digits == <<"0", "1", "2", "3", "4", "5", "6", "7", "8", "9">>

\* String.prototype.toUpperCase, character by character.
UpperChar(c) ==
    IF \E i \in 1..Len(Lower) : Lower[i] = c
    THEN Upper[CHOOSE i \in 1..Len(Lower) : Lower[i] = c]
    ELSE c

toUpperCase(s) == [i \in 1..Len(s) |-> UpperChar(s[i])]

IsDigit(c) == \E i \in 1..Len(Digits) : Digits[i] = c
DigitValue(c) == (CHOOSE i \in 1..Len(Digits) : Digits[i] = c) - 1

\* Number(s) trims white space first.
RECURSIVE TrimLeft(_)
TrimLeft(s) == IF s # <<>> /\ Head(s) = " " THEN TrimLeft(Tail(s)) ELSE s

RECURSIVE TrimRight(_)
TrimRight(s) ==
    IF s # <<>> /\ s[Len(s)] = " " THEN TrimRight(SubSeq(s, 1, Len(s) - 1)) ELSE s

Trim(s) == TrimRight(TrimLeft(s))

RECURSIVE DecimalValue(_)
DecimalValue(s) ==
    IF s = <<>> THEN 0
    ELSE 10 * DecimalValue(SubSeq(s, 1, Len(s) - 1)) + DigitValue(s[Len(s)])

\* Whether Number(s) is a number: the trimmed text is empty (0) or decimal digits.
StringIsNumber(s) == \A i \in 1..Len(Trim(s)) : IsDigit(Trim(s)[i])
StringToNumber(s) == DecimalValue(Trim(s))

\* The global isNaN(v): v is coerced with Number(v) first.
isNaN(v) ==
    CASE v.t = "number" -> FALSE
      [] v.t = "boolean" -> FALSE
      [] v.t = "null" -> FALSE
      [] v.t = "string" -> ~StringIsNumber(v.s)
      [] OTHER -> TRUE

\* `choice - 0`
ToNumber(v) ==
    CASE v.t = "number" -> v.n
      [] v.t = "boolean" -> IF v.b THEN 1 ELSE 0
      [] v.t = "string" -> StringToNumber(v.s)
      [] OTHER -> 0

-----------------------------------------------------------------------------
(* resolveEnum.  An enumeration table is the sequence of its <<name, code>>*)
(* entries in Object.keys order.  The numeric reverse keys of a TypeScript *)
(* enum are left out: a choice equal to one of them is numeric and has     *)
(* returned before the loop.                                               *)

TypeError == [t |-> "TypeError"]

defaultValue == 1

RECURSIVE MatchFrom(_, _, _)
MatchFrom(choice, opts, i) ==
    IF i > Len(opts) THEN Num(defaultValue)
    ELSE IF toUpperCase(choice.s) = toUpperCase(opts[i][1]) THEN Num(opts[i][2])
    ELSE MatchFrom(choice, opts, i + 1)

\* A faulty variant: the comparison is case sensitive.
RECURSIVE MatchFromExact(_, _, _)
MatchFromExact(choice, opts, i) ==
    IF i > Len(opts) THEN Num(defaultValue)
    ELSE IF choice.s = opts[i][1] THEN Num(opts[i][2])
    ELSE MatchFromExact(choice, opts, i + 1)

resolveEnumExact(choice, opts) ==
    IF ~Truthy(choice) THEN Num(defaultValue)
    ELSE IF ~isNaN(choice) THEN Num(ToNumber(choice))
    ELSE IF choice.t # "string" THEN TypeError
    ELSE MatchFromExact(choice, opts, 1)

resolveEnum(choice, opts) ==
    IF ~Truthy(choice) THEN Num(defaultValue)
    ELSE IF ~isNaN(choice) THEN Num(ToNumber(choice))
    ELSE IF choice.t # "string" THEN TypeError   \* choice.toUpperCase is not a function
    ELSE MatchFrom(choice, opts, 1)

\* The enumerations of the compiler the constructor resolves against.
ModuleKind ==
    << <<<<"N", "o", "n", "e">>, 0>>, <<<<"C", "o", "m", "m", "o", "n", "J", "S">>, 1>>,
       <<<<"A", "M", "D">>, 2>>, <<<<"U", "M", "D">>, 3>> >>
ScriptTarget ==
    << <<<<"E", "S", "3">>, 0>>, <<<<"E", "S", "5">>, 1>>, <<<<"E", "S", "6">>, 2>>,
       <<<<"E", "S", "2", "0", "1", "5">>, 2>>, <<<<"E", "S", "N", "e", "x", "t">>, 5>> >>
JsxEmit ==
    << <<<<"N", "o", "n", "e">>, 0>>, <<<<"P", "r", "e", "s", "e", "r", "v", "e">>, 1>>,
       <<<<"R", "e", "a", "c", "t">>, 2>> >>

-----------------------------------------------------------------------------
(* Compiler options: a mapping from option name to value.  A key that maps *)
(* to Absent is not in the object.                                         *)

Keys ==
    {"module", "target", "jsx", "emitDecoratorMetadata", "experimentalDecorators",
     "noEmitOnError", "moduleResolution", "sourceMap", "pattern", "ignoreErrors",
     "ignore"}

O(r) == [k \in Keys |-> IF k \in DOMAIN r THEN r[k] ELSE Absent]

EmptyOptions == [k \in Keys |-> Absent]

\* What a reference to an options object may be: undefined, or an object
\* that is either the one inside require()'s cached module or a fresh one.
Undefined == [ref |-> "undefined"]
Fresh(o) == [ref |-> "own", obj |-> o]
Shared(o) == [ref |-> "shared", obj |-> o]

\* getTsconfig of src/index.js (promise) and getTSconfig of part_000
\* (direct).  root is whether config.paths.root is given.  require() hands
\* out the compilerOptions object of the cached module itself, not a copy.
getTsconfig(v, root, file, cached) ==
    IF ~root /\ v = "promise" THEN Fresh(EmptyOptions)
    ELSE IF ~root THEN [ref |-> "TypeError"]     \* config.paths.root, path.resolve
    ELSE IF file.kind # "json" THEN Fresh(EmptyOptions)      \* caught: return {}
    ELSE IF ~file.hasCompilerOptions THEN Undefined
    ELSE Shared(cached)

\* Object.keys(options).forEach: plugin options over the loaded ones.
Overlay(base, plugin) ==
    [k \in Keys |->
        IF plugin[k] # Absent /\ k \notin {"sourceMap", "ignore"} THEN plugin[k]
        ELSE base[k]]

defaultPattern == Regex("\\.tsx?$")

\* new Set(iterable) as far as has(code) on it can tell: the characters of a
\* string are never equal to a numeric code.
NewSet(v) ==
    CASE v.t = "array" -> {v.l[i] : i \in 1..Len(v.l)}
      [] OTHER -> {}

Iterable(v) == v.t \in {"array", "string"}

Unbuilt ==
    [status |-> "unbuilt", error |-> "", ref |-> "none", own |-> EmptyOptions,
     pattern |-> defaultPattern, isIgnored |-> {}, ignoreAllErrors |-> FALSE,
     hasIgnoreErrors |-> FALSE, ignoreErrors |-> {}, targetExtension |-> "",
     ignoreErrorsOption |-> Absent,     \* what line 94 read; kept for the record only
     cfg |-> [plugin |-> EmptyOptions, root |-> FALSE, sourceMaps |-> FALSE,
              hasConventions |-> FALSE, vendor |-> {}]]

\* The constructor failed with a TypeError; obj is the state it left the
\* options object in.
Failed(cfg, base, obj, why) ==
    [adapter |-> [Unbuilt EXCEPT !.status = "failed", !.error = why, !.cfg = cfg],
     ref |-> base.ref, obj |-> obj]

\* Lines 94-101 of src/index.js: ignoreErrors is consumed.
ConsumeIgnoreErrors(a, o) ==
    IF ~Truthy(o["ignoreErrors"]) THEN [adapter |-> a, obj |-> o]
    ELSE IF o["ignoreErrors"] = Bool(TRUE)
    THEN [adapter |-> [a EXCEPT !.ignoreAllErrors = TRUE],
          obj |-> [o EXCEPT !["ignoreErrors"] = Absent]]
    ELSE [adapter |-> [a EXCEPT !.hasIgnoreErrors = TRUE,
                                !.ignoreErrors = NewSet(o["ignoreErrors"])],
          obj |-> [o EXCEPT !["ignoreErrors"] = Absent]]

\* Lines 89-92 of src/index.js: a custom pattern is consumed.
ConsumePattern(a, o) ==
    IF Truthy(o["pattern"])
    THEN [adapter |-> [a EXCEPT !.pattern = o["pattern"]],
          obj |-> [o EXCEPT !["pattern"] = Absent]]
    ELSE [adapter |-> a, obj |-> o]

\* Lines 81-87 of src/index.js.
Normalize(o, sourceMaps) ==
    [o EXCEPT !["emitDecoratorMetadata"] = Bool(o["emitDecoratorMetadata"] # Bool(FALSE)),
              !["experimentalDecorators"] = Bool(o["experimentalDecorators"] # Bool(FALSE)),
              !["noEmitOnError"] = Bool(FALSE),
              !["moduleResolution"] = Absent,
              !["sourceMap"] = Bool(sourceMaps)]

\* The constructor.  base is what getTsconfig returned.  The result is the
\* adapter together with the state the constructor leaves the options
\* object in (the object may be the shared one).
Construct(v, base, cfg) ==
    IF base.ref = "TypeError"
    THEN Failed(cfg, Undefined, EmptyOptions, "TypeError: path")
    ELSE IF base.ref = "undefined"
    THEN Failed(cfg, base, EmptyOptions, "TypeError: options undefined")
    ELSE
    LET o1 == Overlay(base.obj, cfg.plugin)
        ext == IF v = "direct"
               THEN (IF o1["jsx"] = Str(<<"p", "r", "e", "s", "e", "r", "v", "e">>)
                     THEN "jsx" ELSE "js")
               ELSE ""
        m == resolveEnum(o1["module"], ModuleKind)
        o2 == [o1 EXCEPT !["module"] = m]
        t == resolveEnum(o1["target"], ScriptTarget)
        o3 == [o2 EXCEPT !["target"] = t]
        j == resolveEnum(o1["jsx"], JsxEmit)
        o4 == [o3 EXCEPT !["jsx"] = j]
        o5 == Normalize(o4, cfg.sourceMaps)
        a5 == [Unbuilt EXCEPT !.status = "built", !.ref = base.ref, !.cfg = cfg,
                              !.targetExtension = ext,
                              !.ignoreErrorsOption = o1["ignoreErrors"],
                              !.isIgnored = IF Truthy(cfg.plugin["ignore"])
                                            THEN cfg.plugin["ignore"].paths
                                            ELSE cfg.vendor]
        p == ConsumePattern(a5, o5)
    IN  IF m = TypeError THEN Failed(cfg, base, o1, "TypeError: toUpperCase")
        ELSE IF t = TypeError THEN Failed(cfg, base, o2, "TypeError: toUpperCase")
        ELSE IF j = TypeError THEN Failed(cfg, base, o3, "TypeError: toUpperCase")
        ELSE IF ~Truthy(cfg.plugin["ignore"]) /\ ~cfg.hasConventions
        THEN Failed(cfg, base, o5, "TypeError: conventions undefined")
        ELSE IF Truthy(p.obj["ignoreErrors"]) /\ p.obj["ignoreErrors"] # Bool(TRUE)
                /\ ~Iterable(p.obj["ignoreErrors"])
        THEN Failed(cfg, base, p.obj, "TypeError: not iterable")
        ELSE LET r == ConsumeIgnoreErrors(p.adapter, p.obj)
             IN  [adapter |-> r.adapter, ref |-> base.ref, obj |-> r.obj]

-----------------------------------------------------------------------------
(* Diagnostics and their messages.                                         *)

\* The module-level set of diagnostic codes that never count.
ignoredErrors == {1208, 2307, 2304, 2322, 2339}

\* The loop of findLessOrEqual, from index i on.
RECURSIVE findLoop(_, _, _)
findLoop(haystack, needle, i) ==
    IF i + 1 < Len(haystack) /\ needle >= haystack[i + 2]   \* haystack[i + 1], 0-based
    THEN findLoop(haystack, needle, i + 1)
    ELSE i

\* A faulty variant: the search stops one line early (> instead of >=).
RECURSIVE findLoopStrict(_, _, _)
findLoopStrict(haystack, needle, i) ==
    IF i + 1 < Len(haystack) /\ needle > haystack[i + 2]
    THEN findLoopStrict(haystack, needle, i + 1)
    ELSE i

findLessOrEqualStrict(haystack, needle) ==
    LET i == findLoopStrict(haystack, needle, 0)
    IN  IF i = Len(haystack) THEN -1 ELSE i

findLessOrEqual(haystack, needle) ==
    LET i == findLoop(haystack, needle, 0)
    IN  IF i = Len(haystack) THEN -1 ELSE i

\* A diagnostic's file is absent, or has a line map or not; a line map is
\* the ascending list of the offsets its lines start at, the first one 0.
errPos(err) ==
    IF err.file.has /\ err.file.hasLineMap
    THEN LET lineIndex == findLessOrEqual(err.file.lineMap, err.start)
         IN  "Line: " \o ToString(lineIndex + 1) \o ", Col: "
                 \o ToString(err.start - err.file.lineMap[lineIndex + 1] + 1)
    ELSE "No line map"

toMeaningfulMessage(err) ==
    "Error " \o ToString(err.code) \o ": " \o err.messageText \o " (" \o errPos(err) \o ")"

\* Array.prototype.join("\n") over the mapped messages.
RECURSIVE JoinMessages(_)
JoinMessages(errs) ==
    IF errs = <<>> THEN ""
    ELSE IF Len(errs) = 1 THEN toMeaningfulMessage(errs[1])
    ELSE toMeaningfulMessage(errs[1]) \o "\n" \o JoinMessages(Tail(errs))

Filter(errs, drop) == SelectSeq(errs, LAMBDA err : err.code \notin drop)

\* A faulty variant: the fixed set is not consulted.
ReportableNoFixedSet(a, diagnostics) ==
    IF a.ignoreAllErrors THEN <<>>
    ELSE IF a.hasIgnoreErrors THEN Filter(diagnostics, a.ignoreErrors)
    ELSE diagnostics

\* Lines 119-125 of src/index.js: the diagnostics that are reported.
Reportable(a, diagnostics) ==
    IF a.ignoreAllErrors THEN <<>>
    ELSE IF a.hasIgnoreErrors THEN Filter(Filter(diagnostics, ignoredErrors), a.ignoreErrors)
    ELSE Filter(diagnostics, ignoredErrors)

\* Lines 103-108 of part_000: the same without the fixed set, which the
\* transpile module of that variant has applied already.
Diag(a, diagnostics) ==
    IF a.ignoreAllErrors THEN <<>>
    ELSE IF a.hasIgnoreErrors THEN Filter(diagnostics, a.ignoreErrors)
    ELSE diagnostics

\* ./transpile of part_000: the transpiler's output with the diagnostics of
\* the fixed set removed.
transpile(tr) ==
    IF tr.threw THEN tr
    ELSE [tr EXCEPT !.diagnostics = Filter(tr.diagnostics, ignoredErrors)]

-----------------------------------------------------------------------------
(* Source maps.  The text of a source map is its content in some layout;   *)
(* JSON.parse forgets the layout and JSON.stringify writes the compact one.*)

NoMapText == [t |-> "undefined"]
MapText(fmt, obj) == [t |-> "json", fmt |-> fmt, obj |-> obj]

JSONparse(text) == text.obj
JSONstringify(obj) == MapText("compact", obj)

\* A faulty variant: the source path of the transpiler is kept.
KeepFirstSource(rawMap, path) == rawMap

\* rawMap.sources[0] = path
SetFirstSource(rawMap, path) ==
    [rawMap EXCEPT !.sources = IF rawMap.sources = <<>> THEN <<path>>
                                ELSE [rawMap.sources EXCEPT ![1] = path]]

\* Lines 134-141 of src/index.js: the result object.
Result(compiled, path) ==
    LET text == IF compiled.outputText # "" THEN compiled.outputText
                ELSE "[object Object]"        \* `compiled.outputText || compiled`
        data == text \o "\n"
    IN  IF compiled.sourceMapText.t = "json"
        THEN [data |-> data,
              map |-> JSONstringify(SetFirstSource(JSONparse(compiled.sourceMapText), path))]
        ELSE [data |-> data]

-----------------------------------------------------------------------------
(* compile.                                                                *)

\* A promise settles once: later calls of resolve and reject do nothing.
Pending == [state |-> "pending"]
reject(p, reason) ==
    IF p.state = "pending" THEN [state |-> "rejected", reason |-> reason] ELSE p
resolve(p, value) ==
    IF p.state = "pending" THEN [state |-> "fulfilled", value |-> value] ELSE p

Message(text) == [t |-> "string", text |-> text]

NoOutput == [threw |-> FALSE, called |-> FALSE]

\* compile of src/index.js on a file that is not ignored; tr is what
\* ts.transpileModule does.
CompilePromise(a, file, tr) ==
    IF tr.threw THEN reject(Pending, tr.error)          \* catch: return reject(err)
    ELSE LET reportable == Reportable(a, tr.diagnostics)
             p1 == IF reportable # <<>>
                   THEN reject(Pending, Message(JoinMessages(reportable)))
                   ELSE Pending
         IN  resolve(p1, Result(tr, file.path))

\* compile of part_000 on a file that is not ignored.
CompileDirect(a, file, tr) ==
    IF tr.threw THEN [state |-> "thrown", reason |-> tr.error]
    ELSE LET compiled == transpile(tr)
             diag == Diag(a, compiled.diagnostics)
         IN  IF diag # <<>>
             THEN [state |-> "thrown", reason |-> Message(JoinMessages(diag))]
             ELSE [state |-> "returned", value |-> Result(compiled, file.path)]

\* A faulty variant: an ignored file comes back as a new result object.
CompileNoPassThrough(v, a, file, tr) ==
    IF file.path \in a.isIgnored
    THEN (IF v = "promise" THEN resolve(Pending, [data |-> file.data \o "\n"])
          ELSE [state |-> "returned", value |-> [data |-> file.data \o "\n"]])
    ELSE IF v = "promise" THEN CompilePromise(a, file, tr)
    ELSE CompileDirect(a, file, tr)

\* The outcome of compile(file) on adapter a.
Compile(v, a, file, tr) ==
    IF file.path \in a.isIgnored
    THEN (IF v = "promise" THEN resolve(Pending, file)    \* Promise.resolve(params)
          ELSE [state |-> "returned", value |-> file])
    ELSE IF v = "promise" THEN CompilePromise(a, file, tr)
    ELSE CompileDirect(a, file, tr)

\* A faulty variant: a failing call is remembered by switching all errors off.
AdapterAfterCompileSticky(a, file) == [a EXCEPT !.ignoreAllErrors = TRUE]

\* What a compile call leaves of the adapter: it assigns to none of its fields.
AdapterAfterCompile(a, file) == a

-----------------------------------------------------------------------------
(* The inputs the behaviours are drawn from.                               *)

Adapters == {"first", "second"}

Paths == {"app/a.ts", "vendor/jq.ts"}
Files == [path : Paths, data : {"let x: number = 1;"}]

S(text) == Str(text)

PluginSamples ==
    << EmptyOptions,
       O([ignoreErrors |-> Bool(TRUE), target |-> S(<<"e", "s", "6">>),
          sourceMap |-> Bool(FALSE)]),
       O([ignoreErrors |-> List(<<1005>>), pattern |-> Regex("\\.ts$"),
          module |-> S(<<"a", "m", "d">>), ignore |-> Matcher({"app/a.ts"})]),
       O([ignoreErrors |-> Bool(FALSE), pattern |-> S(<<>>),
          emitDecoratorMetadata |-> Bool(FALSE), jsx |-> S(<<"b", "o", "g", "u", "s">>)]),
       O([ignoreErrors |-> List(<<>>), moduleResolution |-> S(<<"n", "o", "d", "e">>),
          target |-> Num(5)]),
       O([module |-> Obj]) >>

Config(plugin, root, sourceMaps, hasConventions) ==
    [plugin |-> plugin, root |-> root, sourceMaps |-> sourceMaps,
     hasConventions |-> hasConventions,
     vendor |-> IF hasConventions THEN {"vendor/jq.ts"} ELSE {}]

Configs ==
    { Config(PluginSamples[1], TRUE, FALSE, TRUE),
      Config(PluginSamples[2], TRUE, TRUE, TRUE),
      Config(PluginSamples[3], TRUE, FALSE, TRUE),
      Config(PluginSamples[4], TRUE, TRUE, TRUE),
      Config(PluginSamples[5], FALSE, FALSE, TRUE),
      Config(PluginSamples[6], TRUE, TRUE, TRUE),
      Config(PluginSamples[1], TRUE, TRUE, FALSE) }

\* tsconfig.json: missing, not parseable, or JSON with or without a
\* compilerOptions field.
TsFiles ==
    { [kind |-> "missing"], [kind |-> "unparseable"],
      [kind |-> "json", hasCompilerOptions |-> FALSE],
      [kind |-> "json", hasCompilerOptions |-> TRUE,
       compilerOptions |-> O([target |-> S(<<"E", "S", "3">>),
                              module |-> S(<<"u", "m", "d">>),
                              moduleResolution |-> S(<<"n", "o", "d", "e">>)])],
      [kind |-> "json", hasCompilerOptions |-> TRUE,
       compilerOptions |-> O([ignoreErrors |-> Bool(TRUE),
                              jsx |-> S(<<"r", "e", "a", "c", "t">>)])] }

\* What the file gives a constructor that reads it for the first time.
FileOptions(file) ==
    IF file.kind = "json" /\ file.hasCompilerOptions THEN file.compilerOptions
    ELSE EmptyOptions

File(lineMap) == [has |-> TRUE, hasLineMap |-> TRUE, lineMap |-> lineMap]
FileNoLineMap == [has |-> TRUE, hasLineMap |-> FALSE, lineMap |-> <<>>]
NoFile == [has |-> FALSE, hasLineMap |-> FALSE, lineMap |-> <<>>]

DiagSamples ==
    { [code |-> 2322, messageText |-> "Type 'string' is not assignable to type 'number'.",
       file |-> File(<<0, 10, 25>>), start |-> 12],
      [code |-> 1005, messageText |-> "';' expected.",
       file |-> File(<<0, 10, 25>>), start |-> 10],
      [code |-> 2345, messageText |-> "Argument is not assignable.",
       file |-> FileNoLineMap, start |-> 3],
      [code |-> 1109, messageText |-> "Expression expected.",
       file |-> NoFile, start |-> 0] }

RECURSIVE SeqsUpTo(_, _)
SeqsUpTo(set, n) ==
    IF n = 0 THEN {<<>>}
    ELSE LET shorter == SeqsUpTo(set, n - 1)
         IN  shorter \cup {Append(q, x) : q \in shorter, x \in set}

DiagLists == SeqsUpTo(DiagSamples, MaxDiags)

MapSamples ==
    { MapText("compact", [version |-> 3, file |-> "module.js", sources |-> <<"module.ts">>,
                          names |-> <<>>, mappings |-> "AAAA"]),
      MapText("spaced", [version |-> 3, file |-> "a.js",
                         sources |-> <<"module.ts", "lib.d.ts">>,
                         names |-> <<"x">>, mappings |-> "AAAA,IAAI"]) }

\* What the transpiler may do with the options it is handed: throw, or
\* return text, diagnostics and, when options.sourceMap is set, a map (the
\* text then ends in the comment naming the map, so it is not empty).
TranspileOutputs(options) ==
    { [threw |-> TRUE, called |-> TRUE, error |-> [t |-> "Error", text |-> "Debug Failure."]] }
    \cup
    IF options["sourceMap"] = Bool(TRUE)
    THEN [threw : {FALSE}, called : {TRUE},
          outputText : {"var x = 1;\n//# sourceMappingURL=module.js.map"},
          sourceMapText : MapSamples, diagnostics : DiagLists]
    ELSE [threw : {FALSE}, called : {TRUE}, outputText : {"", "var x = 1;"},
          sourceMapText : {NoMapText}, diagnostics : DiagLists]

-----------------------------------------------------------------------------
(* The state machine.                                                      *)

NoCall == [kind |-> "none"]
NoEnumCall == [kind |-> "none"]

OptionsOf(a) == IF adapters[a].ref = "shared" THEN tsModule ELSE adapters[a].own

Init ==
    /\ variant \in {"promise", "direct"}
    /\ tsFile \in TsFiles
    /\ tsModule = FileOptions(tsFile)
    /\ adapters = [a \in Adapters |-> Unbuilt]
    /\ lastCall = NoCall
    /\ enumCall = NoEnumCall

\* new TypeScriptCompiler(cfg)
New(a, cfg) ==
    /\ adapters[a].status = "unbuilt"
    /\ LET base == getTsconfig(variant, cfg.root, tsFile, tsModule)
           r == Construct(variant, base, cfg)
       IN  /\ adapters' = [adapters EXCEPT ![a] =
                  [r.adapter EXCEPT !.ref = r.ref,
                                    !.own = IF r.ref = "own" THEN r.obj ELSE EmptyOptions]]
           /\ tsModule' = IF r.ref = "shared" THEN r.obj ELSE tsModule
    /\ UNCHANGED <<variant, tsFile, lastCall, enumCall>>

\* adapter.compile(file) on a file the ignore predicate matches
CompileIgnored(a, file) ==
    /\ adapters[a].status = "built"
    /\ lastCall = NoCall
    /\ file.path \in adapters[a].isIgnored
    /\ lastCall' = [kind |-> "call", adapter |-> a, file |-> file, tr |-> NoOutput,
                    outcome |-> Compile(variant, adapters[a], file, NoOutput)]
    /\ adapters' = [adapters EXCEPT ![a] = AdapterAfterCompile(adapters[a], file)]
    /\ UNCHANGED <<variant, tsFile, tsModule, enumCall>>

\* adapter.compile(file) on any other file; tr is what the transpiler does
CompileFile(a, file, tr) ==
    /\ adapters[a].status = "built"
    /\ lastCall = NoCall
    /\ file.path \notin adapters[a].isIgnored
    /\ lastCall' = [kind |-> "call", adapter |-> a, file |-> file, tr |-> tr,
                    outcome |-> Compile(variant, adapters[a], file, tr)]
    /\ adapters' = [adapters EXCEPT ![a] = AdapterAfterCompile(adapters[a], file)]
    /\ UNCHANGED <<variant, tsFile, tsModule, enumCall>>

\* The caller takes the outcome of the call.
Consume ==
    /\ lastCall # NoCall
    /\ lastCall' = NoCall
    /\ UNCHANGED <<variant, tsFile, tsModule, adapters, enumCall>>

Next ==
    \/ \E a \in Adapters, cfg \in Configs : New(a, cfg)
    \/ \E a \in Adapters, file \in Files : CompileIgnored(a, file)
    \/ \E a \in Adapters, file \in Files :
           \E tr \in TranspileOutputs(OptionsOf(a)) : CompileFile(a, file, tr)
    \/ Consume

Spec == Init /\ [][Next]_vars

-----------------------------------------------------------------------------
(* resolveEnum on its own: every choice against every table.               *)

EnumAlphabet == {"a", "A", "m", "M", "d", "D", "2", " "}

EnumChoices ==
    {Absent, Null, Bool(FALSE), Bool(TRUE), Obj}
    \cup {Num(n) : n \in 0..MaxNum}
    \cup {Str(s) : s \in SeqsUpTo(EnumAlphabet, MaxLen)}

\* The module kinds, and a table two of whose names differ in case only.
EnumTables ==
    { ModuleKind,
      << <<<<"A", "m">>, 3>>, <<<<"a", "M">>, 4>>, <<<<"d">>, 0>>, <<<<"2", "a">>, 7>> >> }

InitEnum ==
    /\ variant = "promise"
    /\ tsFile = [kind |-> "missing"]
    /\ tsModule = EmptyOptions
    /\ adapters = [a \in Adapters |-> Unbuilt]
    /\ lastCall = NoCall
    /\ enumCall = NoEnumCall

ResolveEnumCall(choice, opts) ==
    /\ enumCall = NoEnumCall
    /\ enumCall' = [kind |-> "call", choice |-> choice, opts |-> opts,
                    result |-> resolveEnum(choice, opts)]
    /\ UNCHANGED <<variant, tsFile, tsModule, adapters, lastCall>>

\* The caller takes the result.
ResolveEnumReturn ==
    /\ enumCall # NoEnumCall
    /\ enumCall' = NoEnumCall
    /\ UNCHANGED <<variant, tsFile, tsModule, adapters, lastCall>>

NextEnum ==
    \/ \E choice \in EnumChoices, opts \in EnumTables : ResolveEnumCall(choice, opts)
    \/ ResolveEnumReturn

SpecEnum == InitEnum /\ [][NextEnum]_vars

-----------------------------------------------------------------------------
(* Properties.  They are stated from the inputs of a call (the file, what  *)
(* the transpiler did, the configuration the adapter was built from) and   *)
(* not through the operators of the model.                                 *)

Called == lastCall.kind = "call"
CallAdapter == adapters[lastCall.adapter]
Succeeded(o) == o.state \in {"fulfilled", "returned"}
FailedCall(o) == o.state \in {"rejected", "thrown"}
FailedOnDiagnostics(o) == FailedCall(o) /\ o.reason.t = "string"
Transpiled == Called /\ lastCall.tr.called /\ ~lastCall.tr.threw

\* The paths the configuration asks to skip.
ConfiguredIgnore(cfg) ==
    IF cfg.plugin["ignore"].t = "matcher" THEN cfg.plugin["ignore"].paths ELSE cfg.vendor

\* C1: a file whose path the ignore predicate matches comes back as the
\* very same file object (path and data untouched, no map), and the
\* transpiler is not invoked for that call.
C1_IgnoredPassThrough ==
    (Called /\ lastCall.file.path \in ConfiguredIgnore(CallAdapter.cfg))
        => /\ Succeeded(lastCall.outcome)
           /\ lastCall.outcome.value = lastCall.file
           /\ ~lastCall.tr.called

C1_Witness ==
    /\ Called
    /\ lastCall.file.path \in ConfiguredIgnore(CallAdapter.cfg)
    /\ lastCall.outcome.value = lastCall.file

\* Whether the configured ignoreErrors value suppresses a code.
Suppressed(option, code) ==
    \/ code \in {1208, 2307, 2304, 2322, 2339}
    \/ option = Bool(TRUE)
    \/ option.t = "array" /\ \E i \in 1..Len(option.l) : option.l[i] = code

Surviving(option, diagnostics) ==
    SelectSeq(diagnostics, LAMBDA d : ~Suppressed(option, d.code))

\* C2: a compile of a file that is not ignored fails on diagnostics exactly
\* when the transpiler returned a diagnostic whose code is outside the fixed
\* set, ignoreErrors is not true and the code is not in the ignoreErrors list.
C2_FailsIffUnsuppressedDiagnostic ==
    Transpiled =>
        (FailedOnDiagnostics(lastCall.outcome)
            <=> \E i \in 1..Len(lastCall.tr.diagnostics) :
                    ~Suppressed(CallAdapter.ignoreErrorsOption,
                                lastCall.tr.diagnostics[i].code))

C2_Witness ==
    /\ Transpiled
    /\ Succeeded(lastCall.outcome)
    /\ CallAdapter.ignoreErrorsOption = List(<<1005>>)
    /\ \E i \in 1..Len(lastCall.tr.diagnostics) : lastCall.tr.diagnostics[i].code = 1005
    /\ \E i \in 1..Len(lastCall.tr.diagnostics) : lastCall.tr.diagnostics[i].code = 2322

\* The position of a diagnostic: the number of lines that start at or
\* before its offset, and its distance from the last such start.
StartsUpTo(d) == {i \in 1..Len(d.file.lineMap) : d.file.lineMap[i] <= d.start}
LineStart(d) ==
    CHOOSE x \in {d.file.lineMap[i] : i \in StartsUpTo(d)} :
        \A i \in StartsUpTo(d) : d.file.lineMap[i] <= x
Position(d) ==
    IF d.file.has /\ d.file.hasLineMap
    THEN "Line: " \o ToString(Cardinality(StartsUpTo(d))) \o ", Col: "
             \o ToString(d.start - LineStart(d) + 1)
    ELSE "No line map"

Line(d) ==
    "Error " \o ToString(d.code) \o ": " \o d.messageText \o " (" \o Position(d) \o ")"

\* The first n lines, each but the first after a newline.
RECURSIVE Lines(_, _)
Lines(ds, n) ==
    IF n = 1 THEN Line(ds[1]) ELSE Lines(ds, n - 1) \o "\n" \o Line(ds[n])

SurvivingOfCall == Surviving(CallAdapter.ignoreErrorsOption, lastCall.tr.diagnostics)

\* C3: when a diagnostic survives the filters the call has one outcome, a
\* failure whose reason is the surviving diagnostics' messages, one
\* 'Error <code>: <messageText> (<position>)' each, in the transpiler's
\* order, joined by newlines; no result is delivered.
C3_OneAggregatedFailure ==
    (Transpiled /\ SurvivingOfCall # <<>>)
        => /\ FailedCall(lastCall.outcome)
           /\ lastCall.outcome.reason =
                  [t |-> "string", text |-> Lines(SurvivingOfCall, Len(SurvivingOfCall))]
           /\ "value" \notin DOMAIN lastCall.outcome

\* The promise variant has called reject and then resolve; two diagnostics
\* survive, the first with a line map.
C3_Witness ==
    /\ Transpiled
    /\ variant = "promise"
    /\ Len(SurvivingOfCall) = 2
    /\ SurvivingOfCall[1].code = 1005
    /\ SurvivingOfCall[2].code = 2345
    /\ lastCall.outcome.state = "rejected"

\* C4: with source maps disabled and no diagnostics from the transpiler, a
\* compile of a file that is not ignored succeeds with the emitted text
\* followed by one newline as data and no map, whatever the emitted text,
\* the empty one included.
C4_EmittedTextAndNewline ==
    (Transpiled /\ lastCall.tr.diagnostics = <<>> /\ ~CallAdapter.cfg.sourceMaps)
        => /\ Succeeded(lastCall.outcome)
           /\ lastCall.outcome.value.data = lastCall.tr.outputText \o "\n"
           /\ "map" \notin DOMAIN lastCall.outcome.value

\* C5: with source maps enabled, a successful compile for which the
\* transpiler emitted a map returns the serialized map of the transpiler
\* with sources[0] set to the input path and nothing else changed.
C5_MapNamesTheInputPath ==
    (Transpiled /\ CallAdapter.cfg.sourceMaps /\ Succeeded(lastCall.outcome)
        /\ lastCall.tr.sourceMapText.t = "json")
        => /\ "map" \in DOMAIN lastCall.outcome.value
           /\ LET map == lastCall.outcome.value.map
                  was == lastCall.tr.sourceMapText.obj
              IN  /\ map.t = "json"
                  /\ map.fmt = "compact"
                  /\ map.obj.sources[1] = lastCall.file.path
                  /\ Len(map.obj.sources) = Len(was.sources)
                  /\ \A i \in 2..Len(was.sources) : map.obj.sources[i] = was.sources[i]
                  /\ \A f \in DOMAIN was \ {"sources"} : map.obj[f] = was[f]
                  /\ DOMAIN map.obj = DOMAIN was

C5_Witness ==
    /\ Transpiled
    /\ CallAdapter.cfg.sourceMaps
    /\ Succeeded(lastCall.outcome)
    /\ lastCall.tr.sourceMapText.t = "json"
    /\ lastCall.tr.sourceMapText.fmt = "spaced"
    /\ lastCall.tr.sourceMapText.obj.sources[1] # lastCall.file.path
    /\ lastCall.outcome.value.map.obj.sources = <<lastCall.file.path, "lib.d.ts">>

\* Reading a choice as the rules of resolveEnum are worded.
Falsy(choice) ==
    \/ choice.t \in {"undefined", "null"}
    \/ choice = Bool(FALSE)
    \/ choice = Num(0)
    \/ choice = Str(<<>>)

NonSpace(s) == {i \in 1..Len(s) : s[i] # " "}

\* Decimal digits, possibly with white space around them (JavaScript reads
\* the all-blank string as the number 0).
NumericString(s) ==
    /\ \A i \in NonSpace(s) : s[i] \in {"0", "1", "2", "3", "4", "5", "6", "7", "8", "9"}
    /\ \A i, j \in NonSpace(s) : \A k \in i..j : k \in NonSpace(s)

RECURSIVE Pow10(_)
Pow10(n) == IF n = 0 THEN 1 ELSE 10 * Pow10(n - 1)

RECURSIVE PlaceSum(_, _, _)
PlaceSum(s, places, last) ==
    IF places = {} THEN 0
    ELSE LET i == CHOOSE x \in places : TRUE
         IN  DigitValue(s[i]) * Pow10(last - i) + PlaceSum(s, places \ {i}, last)

NumericStringValue(s) ==
    IF NonSpace(s) = {} THEN 0
    ELSE PlaceSum(s, NonSpace(s), CHOOSE m \in NonSpace(s) : \A i \in NonSpace(s) : i <= m)

SameLetter(c, d) ==
    c = d \/ \E k \in 1..Len(Lower) : {c, d} = {Lower[k], Upper[k]}

EqualIgnoringCase(s, n) ==
    Len(s) = Len(n) /\ \A i \in 1..Len(s) : SameLetter(s[i], n[i])

NamesEqualTo(s, opts) == {i \in 1..Len(opts) : EqualIgnoringCase(s, opts[i][1])}

ExpectedEnum(choice, opts) ==
    IF Falsy(choice) THEN 1
    ELSE IF choice.t = "number" THEN choice.n
    ELSE IF NumericString(choice.s) THEN NumericStringValue(choice.s)
    ELSE IF NamesEqualTo(choice.s, opts) # {}
    THEN opts[CHOOSE i \in NamesEqualTo(choice.s, opts) :
                  \A j \in NamesEqualTo(choice.s, opts) : i <= j][2]
    ELSE 1

\* C6: for an absent, falsy, numeric or string choice resolveEnum raises
\* nothing and gives: 1 for an absent or falsy choice; the number itself for
\* a number or a numeric string, whatever the table holds; the code of the
\* table name equal to the choice ignoring case for any other string; 1 for
\* a string that equals no table name.
C6_ResolveEnumRules ==
    (enumCall.kind = "call"
        /\ (Falsy(enumCall.choice) \/ enumCall.choice.t \in {"number", "string"}))
        => enumCall.result = Num(ExpectedEnum(enumCall.choice, enumCall.opts))

\* A string in another case than the table's name, resolved to its code.
C6_Witness ==
    /\ enumCall.kind = "call"
    /\ enumCall.choice = Str(<<"a", "M", "d">>)
    /\ enumCall.opts = ModuleKind
    /\ enumCall.result = Num(2)

-----------------------------------------------------------------------------
(* Construction.                                                           *)

\* A configuration the constructor has nothing to object to, tsconfig.json
\* aside: a root and conventions are given, no enumerated option is an
\* object and ignoreErrors is true or something iterable.
WellFormed(cfg) ==
    /\ cfg.root
    /\ cfg.hasConventions \/ Truthy(cfg.plugin["ignore"])
    /\ \A k \in {"module", "target", "jsx"} : cfg.plugin[k].t # "object"
    /\ cfg.plugin["ignoreErrors"].t \in {"undefined", "boolean", "array"}

YieldsNoOptions(file) == ~(file.kind = "json" /\ file.hasCompilerOptions)

\* C7: whatever tsconfig.json is (missing, not parseable, JSON with or
\* without compilerOptions) the constructor completes, and when the file
\* yields no compiler options the only options are the ones the plugin
\* options and the normalization put there.
C7_TsconfigNeverFatal ==
    \A a \in Adapters :
        (adapters[a].status # "unbuilt" /\ WellFormed(adapters[a].cfg))
            => /\ adapters[a].status = "built"
               /\ YieldsNoOptions(tsFile) =>
                      \A k \in Keys :
                          (adapters[a].cfg.plugin[k] = Absent
                              /\ k \notin {"module", "target", "jsx", "emitDecoratorMetadata",
                                           "experimentalDecorators", "noEmitOnError",
                                           "sourceMap"})
                              => OptionsOf(a)[k] = Absent

\* C8: after construction the options handed to the transpiler hold none of
\* moduleResolution, pattern and ignoreErrors, whatever values the
\* configuration gave them.
C8_AdapterOnlyKeysRemoved ==
    \A a \in Adapters :
        adapters[a].status = "built"
            => \A k \in {"moduleResolution", "pattern", "ignoreErrors"} :
                   OptionsOf(a)[k] = Absent

\* C9: a compile call, whether it succeeds, fails or passes the file
\* through, changes nothing of any adapter: options, ignore predicate and
\* diagnostic filter stay what they were.
C9_CompileChangesNothing ==
    [][(lastCall = NoCall /\ lastCall' # NoCall)
          => (adapters' = adapters /\ tsModule' = tsModule)]_vars

\* A failed call on one adapter while the other one exists too.
C9_Witness ==
    /\ Called
    /\ FailedOnDiagnostics(lastCall.outcome)
    /\ \A a \in Adapters : adapters[a].status = "built"

\* What an adapter built from cfg holds when it is the only one to have
\* read tsconfig.json.
Alone(cfg) ==
    LET base == getTsconfig(variant, cfg.root, tsFile, FileOptions(tsFile))
    IN  Construct(variant, IF base.ref = "shared" THEN Fresh(base.obj) ELSE base, cfg)

\* C10: the options, pattern and diagnostic filter of an adapter are
\* determined by tsconfig.json and its own plugin options alone, however
\* many adapters were built from the same root before or after it.
C10_ConstructionIsIndependent ==
    \A a \in Adapters :
        adapters[a].status = "built"
            => /\ OptionsOf(a) = Alone(adapters[a].cfg).obj
               /\ adapters[a].pattern = Alone(adapters[a].cfg).adapter.pattern
               /\ adapters[a].ignoreAllErrors = Alone(adapters[a].cfg).adapter.ignoreAllErrors
               /\ adapters[a].ignoreErrors = Alone(adapters[a].cfg).adapter.ignoreErrors

====
